---- MODULE Spec2Model ----
(***************************************************************************)
(* Model of rishi-cursor: the backend handler generateCode with its patch  *)
(* synthesizer makePatch (backend/src/controller.ts), the /iterate route   *)
(* (backend/src/routes.ts) and the editor command codePilot.iterate        *)
(* (rishi-cursor/src/extension.ts).                                        *)
(*                                                                         *)
(* A JavaScript string is a sequence of one-character strings.  An         *)
(* optional value (undefined or a value) is the empty sequence or a        *)
(* one-element sequence holding the value.                                 *)
(***************************************************************************)
EXTENDS Integers, Sequences, FiniteSets, TLC

\* Longest text (in characters) drawn as code, revised code or selection.
MaxLen == 5

NL == "\n"

\* The characters texts are made of: a letter and the line terminator.
Chars == {"a", NL}

Texts == UNION {[1..n -> Chars] : n \in 0..MaxLen}

None == <<>>

Some(v) == <<v>>

\* Values of a short free-text field (instruction, language): absent, empty, given.
FieldValues == {None, Some(<<>>), Some(<<"a">>)}

-----------------------------------------------------------------------------
(* String helpers *)

RECURSIVE Flatten(_)
\* Array.prototype.join(''): the parts one after the other.
Flatten(ss) == IF ss = <<>> THEN <<>> ELSE Head(ss) \o Flatten(Tail(ss))

RECURSIVE SplitAcc(_, _, _)
SplitAcc(s, cur, acc) ==
  IF s = <<>> THEN Append(acc, cur)
  ELSE IF Head(s) = NL THEN SplitAcc(Tail(s), <<>>, Append(acc, cur))
  ELSE SplitAcc(Tail(s), Append(cur, Head(s)), acc)

\* String.prototype.split('\n'): the segments between terminators; a string
\* that ends with a terminator yields a last empty segment.
Split(s) == SplitAcc(s, <<>>, <<>>)

RECURSIVE TrimLeft(_)
TrimLeft(s) == IF s # <<>> /\ Head(s) = NL THEN TrimLeft(Tail(s)) ELSE s

RECURSIVE TrimRight(_)
TrimRight(s) ==
  IF s # <<>> /\ s[Len(s)] = NL THEN TrimRight(SubSeq(s, 1, Len(s) - 1)) ELSE s

\* String.prototype.trim(): leading and trailing whitespace removed.
Trim(s) == TrimRight(TrimLeft(s))

-----------------------------------------------------------------------------
(* diffLines of the npm package `diff`, imported by controller.ts and     *)
(* routes.ts.  Its code is not part of the repository; it is modelled from *)
(* the contract the specification states for the Line Differencer: lines   *)
(* keep their terminator, are compared for exact equality, the edit script *)
(* is minimal, and consecutive operations of one kind are one Change.      *)
(* The choice among several minimal alignments is left open: every minimal *)
(* script, deletions before insertions between two retained runs, is a     *)
(* possible result.                                                        *)

RECURSIVE TokAcc(_, _, _)
TokAcc(s, cur, acc) ==
  IF s = <<>> THEN (IF cur = <<>> THEN acc ELSE Append(acc, cur))
  ELSE IF Head(s) = NL THEN TokAcc(Tail(s), <<>>, Append(acc, Append(cur, NL)))
  ELSE TokAcc(Tail(s), Append(cur, Head(s)), acc)

\* The lines of a text, each with its terminator; a last line without a
\* terminator is a line of its own, and no empty line follows a final terminator.
Tokenize(s) == TokAcc(s, <<>>, <<>>)

RECURSIVE EditDistance(_, _)
\* Fewest insertions and deletions of lines turning a into b.
EditDistance(a, b) ==
  IF a = <<>> THEN Len(b)
  ELSE IF b = <<>> THEN Len(a)
  ELSE IF Head(a) = Head(b) THEN EditDistance(Tail(a), Tail(b))
  ELSE 1 + (IF EditDistance(Tail(a), b) <= EditDistance(a, Tail(b))
            THEN EditDistance(Tail(a), b) ELSE EditDistance(a, Tail(b)))

Op(kind, tok) == [kind |-> kind, tok |-> tok]

Prepend(o, S) == {<<o>> \o s : s \in S}

RECURSIVE Scripts(_, _)
\* Every minimal edit script from a to b, as retain / delete / insert of lines.
Scripts(a, b) ==
  IF a = <<>> /\ b = <<>> THEN {<<>>}
  ELSE
    (IF a # <<>> /\ b # <<>> /\ Head(a) = Head(b)
       /\ EditDistance(Tail(a), Tail(b)) = EditDistance(a, b)
     THEN Prepend(Op("ret", Head(a)), Scripts(Tail(a), Tail(b))) ELSE {})
    \cup
    (IF a # <<>> /\ EditDistance(Tail(a), b) + 1 = EditDistance(a, b)
     THEN Prepend(Op("del", Head(a)), Scripts(Tail(a), b)) ELSE {})
    \cup
    (IF b # <<>> /\ EditDistance(a, Tail(b)) + 1 = EditDistance(a, b)
     THEN Prepend(Op("ins", Head(b)), Scripts(a, Tail(b))) ELSE {})

\* Deletions come before insertions between two retained runs.
RemovalsFirst(s) ==
  \A i \in 1..(Len(s) - 1) : ~(s[i].kind = "ins" /\ s[i + 1].kind = "del")

Change(kind, tok) ==
  [value |-> tok, count |-> 1, added |-> kind = "ins", removed |-> kind = "del"]

SameKind(c, kind) == c.added = (kind = "ins") /\ c.removed = (kind = "del")

RECURSIVE GroupAcc(_, _)
GroupAcc(ops, acc) ==
  IF ops = <<>> THEN acc
  ELSE LET o == Head(ops)
           n == Len(acc)
       IN IF n > 0 /\ SameKind(acc[n], o.kind)
          THEN GroupAcc(Tail(ops),
                 [acc EXCEPT ![n] = [@ EXCEPT !.value = @ \o o.tok, !.count = @ + 1]])
          ELSE GroupAcc(Tail(ops), Append(acc, Change(o.kind, o.tok)))

\* Group, but a run keeps only the value of its first line.
GroupFirstOnly(ops) ==
  LET g == GroupAcc(ops, <<>>)
  IN [i \in 1..Len(g) |-> [g[i] EXCEPT !.value = Head(Tokenize(@))]]

\* Consecutive operations of one kind joined into one Change {value, count,
\* added, removed}; value is the run's lines one after the other.
Group(ops) == GroupAcc(ops, <<>>)

\* diffLines without alignment: unless the texts are equal, every old line is
\* deleted and every new line inserted.
DiffLinesNaive(oldStr, newStr) ==
  LET a == Tokenize(oldStr)
      b == Tokenize(newStr)
  IN IF a = b THEN {Group([i \in 1..Len(a) |-> Op("ret", a[i])])}
     ELSE {Group([i \in 1..Len(a) |-> Op("del", a[i])]
                 \o [i \in 1..Len(b) |-> Op("ins", b[i])])}

\* The possible results of diffLines(oldStr, newStr).
DiffLines(oldStr, newStr) ==
  {Group(s) : s \in {t \in Scripts(Tokenize(oldStr), Tokenize(newStr)) : RemovalsFirst(t)}}

-----------------------------------------------------------------------------
(* backend/src/controller.ts *)

VARIABLES
  body,       \* req.body: code, instruction, language, each optional
  pc,         \* generateCode: "validate", "awaitModel", "makePatch", "done"
  revised,    \* parsed.revisedCode, once the reply is parsed
  changes,    \* the Change[] diffLines returned
  diff,       \* the rendered diff string
  idx,        \* makePatch: index of the next part of changes.forEach
  patch,      \* makePatch: the patch built so far, one entry per line
  oldLine,    \* makePatch: original-side counter
  newLine,    \* makePatch: revised-side counter
  responses,  \* what was sent on res, in order
  calls       \* how often the model, diffLines and makePatch were called

(* rishi-cursor/src/extension.ts and backend/src/routes.ts *)
VARIABLES
  epc,        \* codePilot.iterate: "idle", "input", "fetching", "done"
  hasEditor,  \* vscode.window.activeTextEditor is defined
  selText,    \* the text selected when the command starts
  docSel,     \* the document's text at the selection
  instr,      \* what showInputBox returned
  fetches,    \* requests sent to /api/iterate
  resp,       \* the body the backend answered with, once it has
  edits,      \* the values handed to eb.replace(editor.selection, ...), in order
  shown       \* notifications shown, in order

bvars == <<body, pc, revised, changes, diff, idx, patch, oldLine, newLine, responses, calls>>

evars == <<epc, hasEditor, selText, docSel, instr, fetches, resp, edits, shown>>

vars == <<bvars, evars>>

\* safeParse with the .min(1) checks left out: any string passes.
SafeParseNoMin(b) == b.code # None /\ b.instruction # None

\* GenerateCodeSchema.safeParse(req.body).success: code and instruction are
\* non-empty strings; language, when given, is non-empty (absent: the default).
SafeParse(b) ==
  /\ b.code # None /\ Len(b.code[1]) >= 1
  /\ b.instruction # None /\ Len(b.instruction[1]) >= 1
  /\ (b.language # None => Len(b.language[1]) >= 1)

\* The marker generateCode and the /iterate route put before a Change's value.
Marker(c) == IF c.added THEN <<"+", " ">> ELSE IF c.removed THEN <<"-", " ">> ELSE <<" ", " ">>

\* changes.map(c => marker + c.value).join('')
RenderDiff(cs) == Flatten([i \in 1..Len(cs) |-> Marker(cs[i]) \o cs[i].value])

\* One line of the patch string: `@@ <sign><start>,<count> @@\n`.
Header(sign, start, count) ==
  [hdr |-> TRUE, sign |-> sign, start |-> start, count |-> count, text |-> <<>>]

\* One line of the patch string: `<sign> <text>\n`.
Content(sign, l) == [hdr |-> FALSE, sign |-> sign, start |-> 0, count |-> 0, text |-> l]

\* lines.forEach(l => { if (l) patch += `<sign> ${l}\n`; })
ContentLines(sign, lines) ==
  LET kept == SelectSeq(lines, LAMBDA l : l # <<>>)
  IN [i \in 1..Len(kept) |-> Content(sign, kept[i])]

\* The forEach body with the retained branch leaving the counters alone.
PatchPartRetainSkips(part, p, o, n) ==
  LET lines == Split(part.value)
      count == Len(lines) - 1
  IN IF part.added
     THEN [patch |-> p \o <<Header("+", n, count)>> \o ContentLines("+", lines),
           oldLine |-> o, newLine |-> n + count]
     ELSE IF part.removed
     THEN [patch |-> p \o <<Header("-", o, count)>> \o ContentLines("-", lines),
           oldLine |-> o + count, newLine |-> n]
     ELSE [patch |-> p, oldLine |-> o, newLine |-> n]

\* The forEach body with a removed part advancing both counters.
PatchPartBothCounters(part, p, o, n) ==
  LET lines == Split(part.value)
      count == Len(lines) - 1
  IN IF part.added
     THEN [patch |-> p \o <<Header("+", n, count)>> \o ContentLines("+", lines),
           oldLine |-> o, newLine |-> n + count]
     ELSE IF part.removed
     THEN [patch |-> p \o <<Header("-", o, count)>> \o ContentLines("-", lines),
           oldLine |-> o + count, newLine |-> n + count]
     ELSE [patch |-> p, oldLine |-> o + count, newLine |-> n + count]

\* The body of makePatch's changes.forEach for one part.
PatchPart(part, p, o, n) ==
  LET lines == Split(part.value)
      count == Len(lines) - 1
  IN IF part.added
     THEN [patch |-> p \o <<Header("+", n, count)>> \o ContentLines("+", lines),
           oldLine |-> o, newLine |-> n + count]
     ELSE IF part.removed
     THEN [patch |-> p \o <<Header("-", o, count)>> \o ContentLines("-", lines),
           oldLine |-> o + count, newLine |-> n]
     ELSE [patch |-> p, oldLine |-> o + count, newLine |-> n + count]

Response(status, rc, d, p) ==
  [status |-> status, revisedCode |-> rc, diff |-> d, patch |-> p]

ErrorResponse(status) == Response(status, None, None, None)

IdleBackend ==
  /\ body = [code |-> None, instruction |-> None, language |-> None]
  /\ pc = "done"
  /\ revised = None /\ changes = <<>> /\ diff = <<>>
  /\ idx = 1 /\ patch = <<>> /\ oldLine = 1 /\ newLine = 1
  /\ responses = <<>>
  /\ calls = [model |-> 0, diffLines |-> 0, makePatch |-> 0]

IdleEditor ==
  /\ epc = "done" /\ hasEditor = FALSE /\ selText = <<>> /\ docSel = <<>>
  /\ instr = None /\ fetches = 0 /\ resp = None /\ edits = <<>> /\ shown = <<>>

\* A request arrives at generateCode.
Init ==
  /\ body \in [code : {None} \cup {Some(t) : t \in Texts},
               instruction : FieldValues, language : FieldValues]
  /\ pc = "validate"
  /\ revised = None /\ changes = <<>> /\ diff = <<>>
  /\ idx = 1 /\ patch = <<>> /\ oldLine = 1 /\ newLine = 1
  /\ responses = <<>>
  /\ calls = [model |-> 0, diffLines |-> 0, makePatch |-> 0]
  /\ IdleEditor

\* generateCode up to its await: validation, then the model call is started.
Validate ==
  /\ pc = "validate"
  /\ IF SafeParse(body)
     THEN /\ pc' = "awaitModel"
          /\ calls' = [calls EXCEPT !.model = @ + 1]
          /\ UNCHANGED responses
     ELSE /\ pc' = "done"
          /\ responses' = Append(responses, ErrorResponse(400))
          /\ UNCHANGED calls
  /\ UNCHANGED <<body, revised, changes, diff, idx, patch, oldLine, newLine, evars>>

\* The awaited call rejects, the reply is not JSON, or the parsed reply has no
\* string revisedCode (diffLines throws on it): the catch block answers 500.
ModelFails ==
  /\ pc = "awaitModel"
  /\ pc' = "done"
  /\ responses' = Append(responses, ErrorResponse(500))
  /\ UNCHANGED <<body, revised, changes, diff, idx, patch, oldLine, newLine, calls, evars>>

\* The reply parses as JSON with revisedCode r: diffLines, the diff string, and
\* makePatch is entered.
ModelReplies ==
  /\ pc = "awaitModel"
  /\ \E r \in Texts : \E cs \in DiffLines(body.code[1], r) :
       /\ revised' = Some(r)
       /\ changes' = cs
       /\ diff' = RenderDiff(cs)
  /\ calls' = [calls EXCEPT !.diffLines = @ + 1, !.makePatch = @ + 1]
  /\ patch' = <<>> /\ oldLine' = 1 /\ newLine' = 1 /\ idx' = 1
  /\ pc' = "makePatch"
  /\ UNCHANGED <<body, responses, evars>>

\* One iteration of changes.forEach in makePatch.
MakePatchStep ==
  /\ pc = "makePatch"
  /\ idx <= Len(changes)
  /\ LET st == PatchPart(changes[idx], patch, oldLine, newLine)
     IN /\ patch' = st.patch
        /\ oldLine' = st.oldLine
        /\ newLine' = st.newLine
  /\ idx' = idx + 1
  /\ UNCHANGED <<body, pc, revised, changes, diff, responses, calls, evars>>

\* makePatch returns and generateCode sends the response.
Respond ==
  /\ pc = "makePatch"
  /\ idx > Len(changes)
  /\ responses' = Append(responses, Response(200, revised, Some(diff), Some(patch)))
  /\ pc' = "done"
  /\ UNCHANGED <<body, revised, changes, diff, idx, patch, oldLine, newLine, calls, evars>>

Next == Validate \/ ModelFails \/ ModelReplies \/ MakePatchStep \/ Respond

Spec == Init /\ [][Next]_vars

-----------------------------------------------------------------------------
(* rishi-cursor/src/extension.ts, with the /iterate route of routes.ts *)

\* The JSON body the /iterate route answers with: {revisedCode, explanation,
\* diff} or {error}.  explanation is the number of its items, when present.
RouteBody(err, rc, ex, d) ==
  [error |-> err, revisedCode |-> rc, explanation |-> ex, diff |-> d]

\* The command codePilot.iterate is invoked.
InitExt ==
  /\ IdleBackend
  /\ epc = "idle"
  /\ hasEditor \in BOOLEAN
  /\ selText \in (IF hasEditor THEN Texts ELSE {<<>>})
  /\ docSel = selText
  /\ instr = None /\ fetches = 0 /\ resp = None /\ edits = <<>> /\ shown = <<>>

\* The command up to its first await: the editor and selection guards, then
\* the input box is opened.
Invoke ==
  /\ epc = "idle"
  /\ IF ~hasEditor
     THEN epc' = "done" /\ shown' = Append(shown, "warning: Open a file first.")
     ELSE IF Trim(selText) = <<>>
     THEN epc' = "done" /\ shown' = Append(shown, "warning: Select some code to iterate.")
     ELSE epc' = "input" /\ UNCHANGED shown
  /\ UNCHANGED <<hasEditor, selText, docSel, instr, fetches, resp, edits, bvars>>

\* showInputBox resolves: without an instruction the command returns,
\* otherwise the request to /api/iterate is sent.
InputBox ==
  /\ epc = "input"
  /\ \E i \in FieldValues :
       /\ instr' = i
       /\ IF i = None \/ i[1] = <<>>
          THEN epc' = "done" /\ UNCHANGED fetches
          ELSE epc' = "fetching" /\ fetches' = fetches + 1
  /\ UNCHANGED <<hasEditor, selText, docSel, resp, edits, shown, bvars>>

\* router.post('/iterate'): the model call, JSON.parse and diffLines succeed
\* and {revisedCode, explanation, diff} is sent, or one of them throws and the
\* catch block sends {error}.
IterateRoute ==
  /\ epc = "fetching" /\ resp = None
  /\ \/ resp' = Some(RouteBody(TRUE, None, None, None))
     \/ \E r \in Texts : \E cs \in DiffLines(selText, r) : \E ex \in {None, Some(0), Some(1)} :
          resp' = Some(RouteBody(FALSE, Some(r), ex, Some(RenderDiff(cs))))
  /\ UNCHANGED <<epc, hasEditor, selText, docSel, instr, fetches, edits, shown, bvars>>

\* fetch rejects (the backend cannot be reached): the command rejects.
FetchFails ==
  /\ epc = "fetching" /\ resp = None
  /\ epc' = "done"
  /\ UNCHANGED <<hasEditor, selText, docSel, instr, fetches, resp, edits, shown, bvars>>

\* The command after `await spinner`: the selection is replaced by revisedCode
\* (undefined for an {error} body: the editor then deletes the selection or
\* rejects the edit) and the explanation is shown (forEach throws without one).
Resume ==
  /\ epc = "fetching" /\ resp # None
  /\ LET r == resp[1]
     IN /\ edits' = Append(edits, r.revisedCode)
        /\ IF r.revisedCode # None
           THEN docSel' = r.revisedCode[1]
           ELSE docSel' \in {<<>>, docSel}
        /\ shown' = shown \o <<"info: AI made changes:">>
                    \o (IF r.explanation = None THEN <<>>
                        ELSE [i \in 1..r.explanation[1] |-> "info: item"])
  /\ epc' = "done"
  /\ UNCHANGED <<hasEditor, selText, instr, fetches, resp, bvars>>

NextExt == Invoke \/ InputBox \/ IterateRoute \/ FetchFails \/ Resume

SpecExt == InitExt /\ [][NextExt]_vars

-----------------------------------------------------------------------------
(* Properties *)

\* The original text of a validated request.
Code == body.code[1]

\* diffLines has returned.
Diffed == revised # None

\* makePatch's forEach has visited every part.
PatchDone == Diffed /\ idx > Len(changes)

OldSide(cs) == SelectSeq(cs, LAMBDA c : ~c.added)

NewSide(cs) == SelectSeq(cs, LAMBDA c : ~c.removed)

NonRetained(cs) == SelectSeq(cs, LAMBDA c : c.added \/ c.removed)

Values(cs) == [i \in 1..Len(cs) |-> cs[i].value]

\* The lines of the parts of cs, in order, each with its terminator.
LinesOf(cs) == Flatten([i \in 1..Len(cs) |-> Tokenize(cs[i].value)])

\* A line without its terminator.
StripNL(l) == IF l # <<>> /\ l[Len(l)] = NL THEN SubSeq(l, 1, Len(l) - 1) ELSE l

RECURSIVE LCSLen(_, _)
\* Length of a longest common subsequence of two line sequences.
LCSLen(a, b) ==
  IF a = <<>> \/ b = <<>> THEN 0
  ELSE IF Head(a) = Head(b) THEN 1 + LCSLen(Tail(a), Tail(b))
  ELSE IF LCSLen(Tail(a), b) >= LCSLen(a, Tail(b))
       THEN LCSLen(Tail(a), b) ELSE LCSLen(a, Tail(b))

\* Positions in the patch of its headers, in order.
HeaderPos == SelectSeq([i \in 1..Len(patch) |-> i], LAMBDA i : patch[i].hdr)

\* Indices of the added or removed parts makePatch has visited, in order.
VisitedHunks ==
  SelectSeq([i \in 1..(idx - 1) |-> i], LAMBDA i : changes[i].added \/ changes[i].removed)

\* Number of content lines the patch holds under its k-th header.
ContentUnder(k) ==
  (IF k < Len(HeaderPos) THEN HeaderPos[k + 1] ELSE Len(patch) + 1) - HeaderPos[k] - 1

\* C1: the values of the retained and removed parts, in order, are the
\* original text line for line, and those of the retained and added parts are
\* the revised text line for line.
C1_RoundTrip ==
  Diffed =>
    /\ Flatten(Values(OldSide(changes))) = Code
    /\ LinesOf(OldSide(changes)) = Tokenize(Code)
    /\ Flatten(Values(NewSide(changes))) = revised[1]
    /\ LinesOf(NewSide(changes)) = Tokenize(revised[1])

\* A diff that retains a line, removes a blank line and adds a line, of an
\* original text whose last line has no terminator.
C1_Witness ==
  /\ Diffed
  /\ Code[Len(Code)] # NL
  /\ \E i, j, k \in 1..Len(changes) :
       /\ changes[i].removed /\ changes[i].value = <<NL>>
       /\ changes[j].added
       /\ ~changes[k].added /\ ~changes[k].removed

\* C2: when makePatch has visited every part, oldLine is the number of lines
\* of the original text plus one and newLine that of the revised text plus one.
C2_CounterClosure ==
  PatchDone =>
    /\ oldLine = Len(Tokenize(Code)) + 1
    /\ newLine = Len(Tokenize(revised[1])) + 1

\* C3: the content lines of the finished patch, markers removed, are the
\* added and removed lines in the order they occur, blank lines included.
C3_ContentLines ==
  PatchDone =>
    LET content == SelectSeq(patch, LAMBDA e : ~e.hdr)
        lines == LinesOf(NonRetained(changes))
    IN [i \in 1..Len(content) |-> content[i].text]
         = [i \in 1..Len(lines) |-> StripNL(lines[i])]

\* C4: in the rendered diff every line of every part carries the part's marker.
C4_MarkerPerLine ==
  Diffed =>
    diff = Flatten([i \in 1..Len(changes) |->
             LET ls == Tokenize(changes[i].value)
             IN Flatten([j \in 1..Len(ls) |-> Marker(changes[i]) \o ls[j]])])

\* C5: the number of inserted plus deleted lines is |A| + |B| - 2*LCS(A, B).
C5_Minimal ==
  Diffed =>
    LET a == Tokenize(Code)
        b == Tokenize(revised[1])
    IN Len(LinesOf(NonRetained(changes))) = Len(a) + Len(b) - 2 * LCSLen(a, b)

\* Three lines against three lines with the middle one replaced: retain,
\* one delete, one insert, retain.
C5_Witness ==
  /\ Diffed
  /\ Len(Tokenize(Code)) = 3 /\ Len(Tokenize(revised[1])) = 3
  /\ Len(changes) = 4
  /\ ~changes[1].added /\ ~changes[1].removed
  /\ changes[2].removed /\ changes[2].count = 1
  /\ changes[3].added /\ changes[3].count = 1
  /\ ~changes[4].added /\ ~changes[4].removed

\* C6: the k-th header of the patch belongs to the k-th added or removed part
\* visited, carries its sign, and its start line is the 1-based position of
\* the part's first line in the original text (removed) or the revised text
\* (added).
C6_HeaderStart ==
  Diffed =>
    /\ Len(HeaderPos) = Len(VisitedHunks)
    /\ \A k \in 1..Len(VisitedHunks) :
         LET i == VisitedHunks[k]
             h == patch[HeaderPos[k]]
             before == SubSeq(changes, 1, i - 1)
             first == Head(Tokenize(changes[i].value))
         IN IF changes[i].removed
            THEN /\ h.sign = "-"
                 /\ h.start = Len(LinesOf(OldSide(before))) + 1
                 /\ Tokenize(Code)[h.start] = first
            ELSE /\ h.sign = "+"
                 /\ h.start = Len(LinesOf(NewSide(before))) + 1
                 /\ Tokenize(revised[1])[h.start] = first

\* A finished patch with a delete hunk and an insert hunk that both start
\* after the first line.
C6_Witness ==
  /\ PatchDone
  /\ \E i, j \in 1..Len(patch) :
       /\ patch[i].hdr /\ patch[i].sign = "-" /\ patch[i].start >= 2
       /\ patch[j].hdr /\ patch[j].sign = "+" /\ patch[j].start >= 2

\* C7: the count in every header is the number of lines of its run and the
\* number of content lines emitted under it.
C7_HeaderCount ==
  PatchDone =>
    /\ Len(HeaderPos) = Len(VisitedHunks)
    /\ \A k \in 1..Len(HeaderPos) :
         /\ patch[HeaderPos[k]].count = Len(Tokenize(changes[VisitedHunks[k]].value))
         /\ patch[HeaderPos[k]].count = ContentUnder(k)

\* code or instruction is missing or empty.
BadBody ==
  \/ body.code = None \/ body.code[1] = <<>>
  \/ body.instruction = None \/ body.instruction[1] = <<>>

\* C8: at most one response is sent; for a body whose code or instruction is
\* missing or empty it is a 400 and the model, diffLines and makePatch are
\* never called; a response carrying diff and patch is sent only for a valid
\* body after the model was called and its reply parsed.
C8_ValidationGuards ==
  /\ Len(responses) <= 1
  /\ (BadBody /\ pc # "validate") =>
       /\ pc = "done"
       /\ responses = <<ErrorResponse(400)>>
       /\ calls = [model |-> 0, diffLines |-> 0, makePatch |-> 0]
       /\ revised = None /\ changes = <<>> /\ diff = <<>> /\ patch = <<>>
  /\ \A i \in 1..Len(responses) :
       (responses[i].status = 200 \/ responses[i].diff # None \/ responses[i].patch # None) =>
         /\ ~BadBody
         /\ calls.model = 1
         /\ Diffed
         /\ responses[i] = Response(200, revised, Some(diff), Some(patch))

\* A request with an empty code was answered 400.
C8_Witness ==
  /\ pc = "done"
  /\ body.code = Some(<<>>)
  /\ responses = <<ErrorResponse(400)>>

\* C9: a removed part followed by an added part gives two hunks in that
\* order, each under a header of its own; visiting the removed part leaves
\* newLine unchanged and visiting the added part leaves oldLine unchanged.
C9_ReplacementHunks ==
  [][(pc = "makePatch" /\ idx <= Len(changes)) =>
       LET emitted == SubSeq(patch', Len(patch) + 1, Len(patch'))
           OneHunk(sign) ==
             /\ Len(patch') > Len(patch)
             /\ SubSeq(patch', 1, Len(patch)) = patch
             /\ emitted[1].hdr /\ emitted[1].sign = sign
             /\ \A m \in 2..Len(emitted) : ~emitted[m].hdr /\ emitted[m].sign = sign
       IN /\ (changes[idx].removed /\ idx < Len(changes) /\ changes[idx + 1].added) =>
               /\ OneHunk("-")
               /\ newLine' = newLine
          /\ (changes[idx].added /\ idx > 1 /\ changes[idx - 1].removed) =>
               /\ OneHunk("+")
               /\ oldLine' = oldLine
               /\ patch[HeaderPos[Len(HeaderPos)]].sign = "-"
               /\ \A m \in (HeaderPos[Len(HeaderPos)] + 1)..Len(patch) : patch[m].sign = "-"
    ]_vars

\* makePatch has visited a removed part of whole lines and the added part
\* that follows it.
C9_Witness ==
  /\ Diffed
  /\ \E i \in 1..(idx - 2) :
       /\ changes[i].removed /\ changes[i].value[Len(changes[i].value)] = NL
       /\ changes[i + 1].added

\* C10: no request is sent unless an editor is open, the selection is not
\* blank and an instruction was entered; the selection is replaced only by the
\* revisedCode of a successful response, and otherwise the document is
\* unchanged.
C10_EditOnlyOnSuccess ==
  /\ fetches > 0 =>
       hasEditor /\ Trim(selText) # <<>> /\ instr # None /\ instr[1] # <<>>
  /\ (docSel # selText \/ edits # <<>>) =>
       /\ resp # None
       /\ ~resp[1].error
       /\ resp[1].revisedCode # None
       /\ edits = <<resp[1].revisedCode>>
       /\ docSel = resp[1].revisedCode[1]

====
